---- MODULE Spec2Model ----
(***************************************************************************)
(* Model of the ETL pipeline of gbultman2/udacity-DataWarehouse:           *)
(* aws_utils.py (store listing, load history query, file comparison,      *)
(* manifest upload), sql_queries.py (the statement lists) and etl.py (the  *)
(* pipeline run).                                                          *)
(*                                                                         *)
(* A Python str is modelled as a sequence of atoms.  An atom is a one      *)
(* character string that matters to the code or to a library it calls      *)
(* (a blank, a double quote, a backslash, the LIKE wildcards % and _) or   *)
(* an opaque chunk of ordinary characters.                                 *)
(***************************************************************************)
EXTENDS Integers, Sequences, FiniteSets, TLC

VARIABLES
    arg,        \* arguments of the function call under study (a record)
    ret,        \* its outcome: [done |-> FALSE] before the call
    store,      \* the data bucket: for each file family the pages it is served as
    objects,    \* the manifest bucket: key -> body of the object stored there
    history,    \* stl_load_commits: the filename of every committed file load
    tables,     \* the warehouse tables, each a bag of rows
    run,        \* per pipeline run: its position and its local variables
    snap        \* the tables as the first run left them, when it ran alone

call == <<arg, ret>>

pipe == <<store, objects, history, tables, run, snap>>

vars == <<arg, ret, store, objects, history, tables, run, snap>>

(***************************************************************************)
(* Bounds                                                                  *)
(***************************************************************************)
MaxPages == 3       \* pages the store serves for one prefix
MaxPageLen == 2     \* keys on one page
MaxLimit == 3       \* largest limit argument tried
MaxListLen == 3     \* length of a list handed to compare_files
MaxRows == 3        \* rows of stl_load_commits handed to the history query
MaxFiles == 2       \* files handed to s3_create_manifest
MaxLogFiles == 2    \* event log files in the data bucket
MaxSongFiles == 1   \* song metadata files in the data bucket
OverlapFiles == 1   \* files of each family when two runs overlap

(***************************************************************************)
(* Generic helpers                                                         *)
(***************************************************************************)
SetOf(s) == {s[i] : i \in DOMAIN s}

NoDup(s) == \A i, j \in DOMAIN s : i # j => s[i] # s[j]

Min(a, b) == IF a < b THEN a ELSE b

Max(a, b) == IF a > b THEN a ELSE b

SeqsUpTo(S, n) == UNION {[1..k -> S] : k \in 0..n}

\* every listing of the finite set S without repetition
Orderings(S) == {q \in [1..Cardinality(S) -> S] : \A i, j \in DOMAIN q : i # j => q[i] # q[j]}

RECURSIVE Concat(_)
Concat(ss) == IF ss = <<>> THEN <<>> ELSE Head(ss) \o Concat(Tail(ss))

\* Python None, for an optional argument held as a tuple: <<>> or <<value>>
None == <<>>

Some(v) == <<v>>

(***************************************************************************)
(* aws_utils.s3_list_bucket_files                                          *)
(*                                                                         *)
(* s3 stands for the client and the store behind it.  The store serves a  *)
(* prefix as the pages s3.pages[1..P].  Page i < P reports IsTruncated and *)
(* the cursor s3.cursors[i]; a request without a ContinuationToken is      *)
(* answered with page 1, a request carrying the cursor of page i with page *)
(* i+1.  s3.failAt = n > 0 makes the n-th request raise.                   *)
(***************************************************************************)
NoToken == "None"

\* the truth value Python gives a token: None and the empty string are false
Truthy(tok) == tok # NoToken /\ tok # ""

\* the cursor the s3 hands out with page i when it is not the empty one
Cursor(i) == ToString(i)

PageAfter(s3, tok) ==
    IF \E i \in DOMAIN s3.cursors : s3.cursors[i] = tok
    THEN 1 + CHOOSE i \in DOMAIN s3.cursors : s3.cursors[i] = tok
    ELSE 1

\* the kwargs of one request: ContinuationToken is sent only when truthy
Kwargs(tok) == IF Truthy(tok) THEN [ContinuationToken |-> tok] ELSE [ContinuationToken |-> NoToken]

list_objects_v2(s3, kwargs) ==
    LET i == IF kwargs.ContinuationToken = NoToken THEN 1
             ELSE PageAfter(s3, kwargs.ContinuationToken)
        P == Len(s3.pages)
    IN  [Contents |-> s3.pages[i],
         IsTruncated |-> i < P,
         NextContinuationToken |-> IF i < P THEN s3.cursors[i] ELSE NoToken]

ExtendOverwrites(files, contents) == contents

\* files.extend(obj['Key'] for obj in response.get('Contents', []))
Extend(files, contents) == files \o contents

\* a run of the loop may not end: MaxRequests cuts it and reports "diverge"
MaxRequests == MaxPages + 2

RECURSIVE ListLoop(_, _, _, _)
ListLoop(s3, files, continuation_token, sent) ==
    IF Len(sent) >= MaxRequests
    THEN [outcome |-> "diverge", files |-> files, sent |-> sent]
    ELSE LET kwargs == Kwargs(continuation_token)
             sent2 == Append(sent, kwargs.ContinuationToken)
         IN  IF s3.failAt = Len(sent2)
             THEN [outcome |-> "except", files |-> files, sent |-> sent2]
             ELSE LET response == list_objects_v2(s3, kwargs)
                      files2 == Extend(files, response.Contents)
                  IN  IF response.IsTruncated
                      THEN ListLoop(s3, files2, response.NextContinuationToken, sent2)
                      ELSE [outcome |-> "break", files |-> files2, sent |-> sent2]

\* Python's files[:n]
SliceTo(files, n) ==
    IF n >= 0 THEN SubSeq(files, 1, Min(n, Len(files)))
    ELSE SubSeq(files, 1, Max(0, Len(files) + n))

\* return files[:limit] if limit else files
ApplyLimit(files, limit) ==
    IF limit # None /\ limit[1] # 0 THEN SliceTo(files, limit[1]) ELSE files

\* (a variant whose except clause raises again)
ListReraises(s3, limit) ==
    LET r == ListLoop(s3, <<>>, NoToken, <<>>)
    IN  [done |-> TRUE, returned |-> r.outcome = "break", outcome |-> r.outcome,
         files |-> IF r.outcome = "break" THEN ApplyLimit(r.files, limit) ELSE <<>>,
         sent |-> r.sent]

\* returned is FALSE when the call does not come back: the except clause
\* catches every Exception, so that is only the loop that never ends
s3_list_bucket_files(s3, limit) ==
    LET r == ListLoop(s3, <<>>, NoToken, <<>>)
    IN  IF r.outcome = "diverge"
        THEN [done |-> TRUE, returned |-> FALSE, outcome |-> r.outcome,
              files |-> <<>>, sent |-> r.sent]
        ELSE [done |-> TRUE, returned |-> TRUE, outcome |-> r.outcome,
              files |-> ApplyLimit(r.files, limit), sent |-> r.sent]

(***************************************************************************)
(* aws_utils.compare_files                                                 *)
(*                                                                         *)
(* list(set(s3_files) - set(redshift_committed_files)): the order in which *)
(* a Python set of str is listed is not fixed, so the operator gives every *)
(* list the call may return.                                               *)
(***************************************************************************)
CompareKeepsRepeats(redshift_committed_files, s3_files) ==
    {SelectSeq(s3_files, LAMBDA f : f \notin SetOf(redshift_committed_files))}

CompareSwapped(redshift_committed_files, s3_files) ==
    Orderings(SetOf(redshift_committed_files) \ SetOf(s3_files))

compare_files(redshift_committed_files, s3_files) ==
    Orderings(SetOf(s3_files) \ SetOf(redshift_committed_files))

(***************************************************************************)
(* aws_utils.redshift_get_committed_files                                  *)
(*                                                                         *)
(* stl_load_commits is a set of rows, one per committed file load: the     *)
(* query that loaded the file and the filename.  The WHERE clause is the   *)
(* SQL pattern match                                                       *)
(* filename LIKE '%<prefix>%', in which % stands for any run of characters *)
(* and _ for any one character, also when they come from the prefix.       *)
(***************************************************************************)
Blank == " "

RECURSIVE Like(_, _)
Like(s, pattern) ==
    IF pattern = <<>> THEN s = <<>>
    ELSE IF Head(pattern) = "%"
         THEN Like(s, Tail(pattern)) \/ (s # <<>> /\ Like(Tail(s), pattern))
         ELSE /\ s # <<>>
              /\ (Head(pattern) = "_" \/ Head(pattern) = Head(s))
              /\ Like(Tail(s), Tail(pattern))

\* the pattern of the f-string: '%{prefix}%'
LikePattern(prefix) == <<"%">> \o prefix \o <<"%">>

\* Python's str.strip()
RECURSIVE LStrip(_)
LStrip(s) == IF s # <<>> /\ Head(s) = Blank THEN LStrip(Tail(s)) ELSE s

RECURSIVE RStrip(_)
RStrip(s) ==
    IF s # <<>> /\ s[Len(s)] = Blank THEN RStrip(SubSeq(s, 1, Len(s) - 1)) ELSE s

\* (a variant that keeps the filename as the history holds it)
NoStrip(s) == s

Strip(s) == RStrip(LStrip(s))

\* SELECT DISTINCT filename FROM stl_load_commits WHERE filename LIKE ...
SelectDistinctLike(rows, prefix) ==
    {f \in {row.filename : row \in rows} : Like(f, LikePattern(prefix))}

\* every list the call may return: the rows come back in any order
redshift_get_committed_files(rows, prefix) ==
    {[i \in DOMAIN q |-> Strip(q[i])] : q \in Orderings(SelectDistinctLike(rows, prefix))}

(***************************************************************************)
(* aws_utils.s3_create_manifest                                            *)
(*                                                                         *)
(* manifest_content is a JSON value; values carry a tag t and a payload v: *)
(* a string (its atoms), true, an array (its items) or an object (its      *)
(* members, in insertion order).  json_dumps is json.dumps(..., indent=2). *)
(***************************************************************************)
DQ == "\""

BS == "\\"

NL == "\n"

JStr(s) == [t |-> "str", v |-> s]

JTrue == [t |-> "true", v |-> <<>>]

JArr(items) == [t |-> "arr", v |-> items]

JObj(members) == [t |-> "obj", v |-> members]

Member(k, val) == [k |-> k, val |-> val]

EntryOptional(file) ==
    JObj(<<Member(<<"url">>, JStr(file)), Member(<<"mandatory">>, JStr(<<"true">>))>>)

\* {"url": f"{file}", "mandatory": True}
Entry(file) ==
    JObj(<<Member(<<"url">>, JStr(file)), Member(<<"mandatory">>, JTrue)>>)

manifest_content(file_list) ==
    JObj(<<Member(<<"entries">>, JArr([i \in DOMAIN file_list |-> Entry(file_list[i])]))>>)

\* the escapes json.dumps writes inside a string
EscapeAtom(a) ==
    IF a = DQ THEN <<BS, DQ>>
    ELSE IF a = BS THEN <<BS, BS>>
    ELSE IF a = NL THEN <<BS, "n">>
    ELSE <<a>>

EncodeString(s) == <<DQ>> \o Concat([i \in DOMAIN s |-> EscapeAtom(s[i])]) \o <<DQ>>

\* a line break followed by the indentation of nesting level d (indent=2)
NewLine(d) == <<NL>> \o [i \in 1..(2 * d) |-> Blank]

RECURSIVE Dumps(_, _)
RECURSIVE DumpItems(_, _, _)
RECURSIVE DumpMembers(_, _, _)
DumpItems(items, i, d) ==
    IF i > Len(items) THEN <<>>
    ELSE (IF i > 1 THEN <<",">> ELSE <<>>) \o NewLine(d) \o Dumps(items[i], d)
         \o DumpItems(items, i + 1, d)

DumpMembers(members, i, d) ==
    IF i > Len(members) THEN <<>>
    ELSE (IF i > 1 THEN <<",">> ELSE <<>>) \o NewLine(d)
         \o EncodeString(members[i].k) \o <<":", Blank>> \o Dumps(members[i].val, d)
         \o DumpMembers(members, i + 1, d)

Dumps(val, d) ==
    CASE val.t = "str" -> EncodeString(val.v)
      [] val.t = "true" -> <<"true">>
      [] val.t = "arr" ->
            IF val.v = <<>> THEN <<"[", "]">>
            ELSE <<"[">> \o DumpItems(val.v, 1, d + 1) \o NewLine(d) \o <<"]">>
      [] val.t = "obj" ->
            IF val.v = <<>> THEN <<"{", "}">>
            ELSE <<"{">> \o DumpMembers(val.v, 1, d + 1) \o NewLine(d) \o <<"}">>

json_dumps(val) == Dumps(val, 0)

\* (a variant that does not replace an object that is there)
PutIfAbsent(bucket, Key, Body) ==
    [k \in DOMAIN bucket \cup {Key} |-> IF k \in DOMAIN bucket THEN bucket[k] ELSE Body]

\* s3.put_object(Bucket, Key, Body, ContentType): the bucket after the call
put_object(bucket, Key, Body) ==
    [k \in DOMAIN bucket \cup {Key} |-> IF k = Key THEN Body ELSE bucket[k]]

s3_create_manifest(bucket, manifest_key, file_list) ==
    put_object(bucket, manifest_key, json_dumps(manifest_content(file_list)))

(***************************************************************************)
(* Reading a JSON text back (json.loads, and the bulk loader reading a     *)
(* manifest).  A parse gives [ok, val, pos]: pos is the next unread atom.  *)
(***************************************************************************)
IsWs(a) == a = Blank \/ a = NL

RECURSIVE SkipWs(_, _)
SkipWs(text, p) == IF p <= Len(text) /\ IsWs(text[p]) THEN SkipWs(text, p + 1) ELSE p

ParseError == [ok |-> FALSE, val |-> JTrue, pos |-> 0]

Parsed(val, pos) == [ok |-> TRUE, val |-> val, pos |-> pos]

\* the atoms of a string whose opening quote is at p - 1
RECURSIVE ParseChars(_, _, _)
ParseChars(text, p, acc) ==
    IF p > Len(text) THEN ParseError
    ELSE IF text[p] = DQ THEN Parsed(JStr(acc), p + 1)
    ELSE IF text[p] = BS
         THEN IF p + 1 > Len(text) THEN ParseError
              ELSE IF text[p + 1] = DQ THEN ParseChars(text, p + 2, Append(acc, DQ))
              ELSE IF text[p + 1] = BS THEN ParseChars(text, p + 2, Append(acc, BS))
              ELSE IF text[p + 1] = "n" THEN ParseChars(text, p + 2, Append(acc, NL))
              ELSE ParseError
    ELSE IF text[p] = NL THEN ParseError
    ELSE ParseChars(text, p + 1, Append(acc, text[p]))

RECURSIVE ParseValue(_, _)
RECURSIVE ParseItems(_, _, _)
RECURSIVE ParseMembers(_, _, _)
\* an item has been read: the array goes on after it
AfterItem(text, acc, item) ==
    IF item.ok THEN ParseItems(text, item.pos, Append(acc, item.val)) ELSE ParseError

\* p is behind "[" or behind an item, whitespace skipped
ItemsAt(text, p, acc) ==
    IF p > Len(text) THEN ParseError
    ELSE IF acc = <<>> /\ text[p] = "]" THEN Parsed(JArr(acc), p + 1)
    ELSE IF acc = <<>> THEN AfterItem(text, acc, ParseValue(text, p))
    ELSE IF text[p] = "," THEN AfterItem(text, acc, ParseValue(text, p + 1))
    ELSE IF text[p] = "]" THEN Parsed(JArr(acc), p + 1)
    ELSE ParseError

ParseItems(text, p0, acc) == ItemsAt(text, SkipWs(text, p0), acc)

\* the value of a member has been read: the object goes on after it
AfterMember(text, acc, k, item) ==
    IF item.ok THEN ParseMembers(text, item.pos, Append(acc, Member(k, item.val)))
    ELSE ParseError

AfterColon(text, acc, k, p) ==
    IF p <= Len(text) /\ text[p] = ":" THEN AfterMember(text, acc, k, ParseValue(text, p + 1))
    ELSE ParseError

AfterKey(text, acc, key) ==
    IF key.ok THEN AfterColon(text, acc, key.val.v, SkipWs(text, key.pos)) ELSE ParseError

\* p is where the key of a member has to start
MemberAt(text, p, acc) ==
    IF p <= Len(text) /\ text[p] = DQ THEN AfterKey(text, acc, ParseChars(text, p + 1, <<>>))
    ELSE ParseError

\* p is behind "{" or behind a member, whitespace skipped
MembersAt(text, p, acc) ==
    IF p > Len(text) THEN ParseError
    ELSE IF acc = <<>> /\ text[p] = "}" THEN Parsed(JObj(acc), p + 1)
    ELSE IF acc = <<>> THEN MemberAt(text, p, acc)
    ELSE IF text[p] = "," THEN MemberAt(text, SkipWs(text, p + 1), acc)
    ELSE IF text[p] = "}" THEN Parsed(JObj(acc), p + 1)
    ELSE ParseError

ParseMembers(text, p0, acc) == MembersAt(text, SkipWs(text, p0), acc)

ValueAt(text, p) ==
    IF p > Len(text) THEN ParseError
    ELSE IF text[p] = DQ THEN ParseChars(text, p + 1, <<>>)
    ELSE IF text[p] = "true" THEN Parsed(JTrue, p + 1)
    ELSE IF text[p] = "[" THEN ParseItems(text, p + 1, <<>>)
    ELSE IF text[p] = "{" THEN ParseMembers(text, p + 1, <<>>)
    ELSE ParseError

ParseValue(text, p0) == ValueAt(text, SkipWs(text, p0))

\* nothing but whitespace may follow the value
WholeText(text, r) ==
    IF r.ok /\ SkipWs(text, r.pos) = Len(text) + 1 THEN r ELSE ParseError

\* the value of a whole text; not ok when the text is no JSON value
json_loads(text) == WholeText(text, ParseValue(text, 1))

(***************************************************************************)
(* Configuration: the values etl.py and sql_queries.py read from dwh.cfg.  *)
(* Family 1 is the event logs (LOG_DATA), family 2 the song metadata       *)
(* (SONG_DATA).                                                            *)
(***************************************************************************)
DATA_BUCKET == "b"

LOG_DATA == <<"log">>

SONG_DATA == <<"song">>

MANIFEST_LOG == "log.manifest"

MANIFEST_SONG == "song.manifest"

Runs == {1, 2}

Families == {1, 2}

file_prefix(fam) == IF fam = 1 THEN LOG_DATA ELSE SONG_DATA

manifest_key(fam) == IF fam = 1 THEN MANIFEST_LOG ELSE MANIFEST_SONG

\* the key of the i-th file of a family
Key(fam, i) == file_prefix(fam) \o <<"/", ToString(i)>>

UriWithoutBucket(data_bucket, file) == file

\* f"s3://{data_bucket}/{file}"
Uri(data_bucket, file) == <<"s3://", data_bucket, "/">> \o file

\* stl_load_commits.filename is a fixed-width column: values are blank padded
Pad(filename) == filename \o <<Blank>>

StoreKeys(fam) == Concat(store[fam].pages)

StartsWith(s, p) == Len(s) >= Len(p) /\ SubSeq(s, 1, Len(p)) = p

(***************************************************************************)
(* The warehouse.  A row of a staging table is identified with the file it *)
(* was loaded from (a file holds one record); a table is a bag of rows.    *)
(* The event of a log file names the artist of the first song file.        *)
(***************************************************************************)
LogRows == {Uri(DATA_BUCKET, Key(1, i)) : i \in 1..MaxLogFiles}

SongRows == {Uri(DATA_BUCKET, Key(2, i)) : i \in 1..MaxSongFiles}

Played(l) == Uri(DATA_BUCKET, Key(2, 1))

EmptyTables ==
    [staging_song_log |-> [x \in LogRows |-> 0],
     staging_song_data |-> [x \in SongRows |-> 0],
     dim_user |-> [x \in LogRows |-> 0],
     dim_artist |-> [x \in SongRows |-> 0],
     dim_song |-> [x \in SongRows |-> 0],
     fact_songplay |-> [x \in LogRows |-> 0]]

Ok(tbl, hist, files) == [ok |-> TRUE, tables |-> tbl, history |-> hist, files |-> files]

SqlError == [ok |-> FALSE, tables |-> EmptyTables, history |-> {}, files |-> <<>>]

Count(files, x) == Cardinality({i \in DOMAIN files : files[i] = x})

\* TRUNCATE TABLE <name>
Truncate(tbl, name) == [tbl EXCEPT ![name] = [x \in DOMAIN @ |-> 0]]

\* the committed effect of a COPY that ingests the files: their rows are
\* appended to the table and each file is recorded in stl_load_commits
LoadFiles(tbl, hist, name, files, qid) ==
    IF \E i \in DOMAIN files : files[i] \notin DOMAIN tbl[name] THEN SqlError
    ELSE Ok([tbl EXCEPT ![name] = [x \in DOMAIN @ |-> @[x] + Count(files, x)]],
            hist \cup {[query |-> qid, filename |-> Pad(files[i])] : i \in DOMAIN files},
            files)

IsManifest(doc) ==
    /\ doc.ok
    /\ doc.val.t = "obj"
    /\ Len(doc.val.v) = 1
    /\ doc.val.v[1].k = <<"entries">>
    /\ doc.val.v[1].val.t = "arr"
    /\ \A i \in DOMAIN doc.val.v[1].val.v :
           LET e == doc.val.v[1].val.v[i]
           IN  /\ e.t = "obj"
               /\ Len(e.v) >= 1
               /\ e.v[1].k = <<"url">>
               /\ e.v[1].val.t = "str"

UrlsOf(doc) ==
    IF IsManifest(doc)
    THEN Some([i \in DOMAIN doc.val.v[1].val.v |-> doc.val.v[1].val.v[i].v[1].val.v])
    ELSE None

\* the urls a manifest text lists, None when the text is no manifest
ManifestUrls(text) == UrlsOf(json_loads(text))

\* the files a COPY with the MANIFEST option ingests
LoadManifest(tbl, hist, name, urls, qid) ==
    IF urls = None THEN SqlError ELSE LoadFiles(tbl, hist, name, urls[1], qid)

\* COPY <name> FROM 's3://<manifest bucket>/<key>' ... MANIFEST
CopyManifest(tbl, hist, name, key, qid) ==
    IF key \notin DOMAIN objects THEN SqlError
    ELSE LoadManifest(tbl, hist, name, ManifestUrls(objects[key]), qid)

\* COPY <name> FROM 's3://<bucket>/<prefix>': every object under the prefix
CopyPrefix(tbl, hist, name, bucket, prefix, qid) ==
    LET keys == SelectSeq(StoreKeys(1) \o StoreKeys(2), LAMBDA k : StartsWith(k, prefix))
    IN  LoadFiles(tbl, hist, name, [i \in DOMAIN keys |-> Uri(bucket, keys[i])], qid)

staging_events_copy_prefix(tbl, hist, qid) ==
    CopyPrefix(tbl, hist, "staging_song_log", DATA_BUCKET, LOG_DATA, qid)

staging_events_copy(tbl, hist, qid) ==
    CopyManifest(tbl, hist, "staging_song_log", MANIFEST_LOG, qid)

staging_songs_copy(tbl, hist, qid) ==
    CopyPrefix(tbl, hist, "staging_song_data", DATA_BUCKET, SONG_DATA, qid)

\* INSERT INTO dim_user SELECT DISTINCT ... FROM staging_song_log
user_table_insert(tbl) ==
    [tbl EXCEPT !.dim_user =
        [x \in LogRows |-> @[x] + IF tbl.staging_song_log[x] > 0 THEN 1 ELSE 0]]

\* INSERT INTO dim_artist SELECT DISTINCT ... FROM staging_song_data
artist_table_insert(tbl) ==
    [tbl EXCEPT !.dim_artist =
        [x \in SongRows |-> @[x] + IF tbl.staging_song_data[x] > 0 THEN 1 ELSE 0]]

\* INSERT INTO dim_song SELECT DISTINCT da.artist_key, ... FROM staging_song_data
\* LEFT JOIN dim_artist: one row per matching dim_artist row, one if there is none
song_table_insert(tbl) ==
    [tbl EXCEPT !.dim_song =
        [x \in SongRows |-> @[x] + IF tbl.staging_song_data[x] > 0
                                   THEN Max(1, tbl.dim_artist[x]) ELSE 0]]

\* INSERT INTO fact_songplay SELECT DISTINCT ... FROM staging_song_log LEFT JOIN
\* dim_user, dim_artist, dim_song WHERE a.artist_id IS NOT NULL: one row per
\* combination of matching dimension rows
songplay_table_insert(tbl) ==
    [tbl EXCEPT !.fact_songplay =
        [x \in LogRows |-> @[x] + IF tbl.staging_song_log[x] > 0
                                  THEN Max(1, tbl.dim_user[x]) * tbl.dim_artist[Played(x)]
                                       * Max(1, tbl.dim_song[Played(x)])
                                  ELSE 0]]

truncate_staging_table_queries == <<"truncate_staging_events", "truncate_staging_songs">>

copy_table_queries == <<"staging_events_copy", "staging_songs_copy">>

truncate_star_table_queries ==
    <<"truncate_artist_table", "truncate_song_table", "truncate_user_table",
      "truncate_songplay_table">>

\* (a variant that fills the fact table before the dimension tables)
InsertsSongplayFirst ==
    <<"songplay_table_insert", "user_table_insert", "artist_table_insert",
      "song_table_insert">>

insert_table_queries ==
    <<"user_table_insert", "artist_table_insert", "song_table_insert",
      "songplay_table_insert">>

\* cur.execute(query); conn.commit(): the committed effect of one statement
\* (qid names the query in stl_load_commits)
Execute(query, tbl, hist, qid) ==
    CASE query = "truncate_staging_events" -> Ok(Truncate(tbl, "staging_song_log"), hist, <<>>)
      [] query = "truncate_staging_songs" -> Ok(Truncate(tbl, "staging_song_data"), hist, <<>>)
      [] query = "staging_events_copy" -> staging_events_copy(tbl, hist, qid)
      [] query = "staging_songs_copy" -> staging_songs_copy(tbl, hist, qid)
      [] query = "truncate_artist_table" -> Ok(Truncate(tbl, "dim_artist"), hist, <<>>)
      [] query = "truncate_song_table" -> Ok(Truncate(tbl, "dim_song"), hist, <<>>)
      [] query = "truncate_user_table" -> Ok(Truncate(tbl, "dim_user"), hist, <<>>)
      [] query = "truncate_songplay_table" -> Ok(Truncate(tbl, "fact_songplay"), hist, <<>>)
      [] query = "user_table_insert" -> Ok(user_table_insert(tbl), hist, <<>>)
      [] query = "artist_table_insert" -> Ok(artist_table_insert(tbl), hist, <<>>)
      [] query = "song_table_insert" -> Ok(song_table_insert(tbl), hist, <<>>)
      [] query = "songplay_table_insert" -> Ok(songplay_table_insert(tbl), hist, <<>>)

\* (a variant of main() that fills the star tables before it loads staging)
BatchesInsertFirst ==
    <<truncate_star_table_queries, insert_table_queries,
      truncate_staging_table_queries, copy_table_queries>>

\* the statement lists main() runs, in its order: truncate_staging,
\* load_staging_tables, truncate_star_tables, insert_tables
Batches ==
    <<truncate_staging_table_queries, copy_table_queries,
      truncate_star_table_queries, insert_table_queries>>

(***************************************************************************)
(* etl.main: one pipeline run r.  run[r].pc is its position:               *)
(*   start, then for family 1 and 2: list, query, upload                   *)
(*   (aws_generate_manifest), connect, sql (statement k of batch), close,  *)
(*   done; failed when an error has propagated out of main.                *)
(* s3_files, committed and listed are the locals of the manifest           *)
(* generation in progress.  wrote, loaded, listErr and seen record what    *)
(* the run did, for the properties: the files of the manifest it uploaded  *)
(* per family, the files its COPY ingested per family, whether a listing   *)
(* of it met a store error, and the number of event COPYs committed when   *)
(* it read the history for family 1.  steps lists, in order, the manifest   *)
(* uploads and the statements the run has completed.                       *)
(***************************************************************************)
\* the name under which the upload of a family's manifest is listed in steps
UploadStep(fam) == IF fam = 1 THEN "manifest_log" ELSE "manifest_song"

IdleRun ==
    [pc |-> "start", fam |-> 1, s3_files |-> <<>>, committed |-> <<>>,
     listed |-> "none", batch |-> 1, k |-> 1,
     wrote |-> <<None, None>>, loaded |-> <<None, None>>, listErr |-> FALSE,
     seen |-> 0, steps |-> <<>>]

NoSnap == [taken |-> FALSE, tables |-> EmptyTables]

Start(r) ==
    /\ run[r].pc = "start"
    /\ run' = [run EXCEPT ![r].pc = "list", ![r].fam = 1]
    /\ UNCHANGED <<call, store, objects, history, tables, snap>>

\* the listing has returned res: s3_files_with_prefix = [f"s3://..." ...]
Listed(r, res) ==
    /\ res.returned
    /\ run' = [run EXCEPT
                  ![r].pc = "query",
                  ![r].listed = res.outcome,
                  ![r].listErr = @ \/ res.outcome = "except",
                  ![r].s3_files = [i \in DOMAIN res.files |->
                                      Uri(DATA_BUCKET, res.files[i])]]

\* s3_files = s3_list_bucket_files(s3, data_bucket, file_prefix, limit=limit),
\* the store raising at request failAt (0: at none)
ListFilesAt(r, failAt) ==
    /\ run[r].pc = "list"
    /\ Listed(r, s3_list_bucket_files(
                     [pages |-> store[run[r].fam].pages,
                      cursors |-> store[run[r].fam].cursors,
                      failAt |-> failAt], None))
    /\ UNCHANGED <<call, store, objects, history, tables, snap>>

ListFiles(r) == \E failAt \in 0..Len(store[run[r].fam].pages) : ListFilesAt(r, failAt)

EventCopiesCommitted == Cardinality({x \in Runs : run[x].loaded[1] # None})

\* redshift_committed_files = redshift_get_committed_files(..., prefix=file_prefix)
QueryHistory(r) ==
    /\ run[r].pc = "query"
    /\ \E q \in redshift_get_committed_files(history, file_prefix(run[r].fam)) :
          run' = [run EXCEPT
                     ![r].pc = "upload",
                     ![r].committed = q,
                     ![r].seen = IF run[r].fam = 1 THEN EventCopiesCommitted ELSE @]
    /\ UNCHANGED <<call, store, objects, history, tables, snap>>

\* (a variant that answers a failed history query with an empty manifest)
QueryFailsWritesEmpty(r) ==
    /\ run[r].pc = "query"
    /\ run' = [run EXCEPT ![r].pc = "failed"]
    /\ objects' = s3_create_manifest(objects, manifest_key(run[r].fam), <<>>)
    /\ UNCHANGED <<call, store, history, tables, snap>>

\* psycopg2 raises in connect or execute: the error leaves main
QueryFails(r) ==
    /\ run[r].pc = "query"
    /\ run' = [run EXCEPT ![r].pc = "failed"]
    /\ UNCHANGED <<call, store, objects, history, tables, snap>>

\* new_files = compare_files(...); s3_create_manifest(..., file_list=new_files)
Upload(r) ==
    /\ run[r].pc = "upload"
    /\ \E new_files \in compare_files(run[r].committed, run[r].s3_files) :
          /\ objects' = s3_create_manifest(objects, manifest_key(run[r].fam), new_files)
          /\ run' = [run EXCEPT
                        ![r].pc = IF run[r].fam = 1 THEN "list" ELSE "connect",
                        ![r].fam = IF run[r].fam = 1 THEN 2 ELSE @,
                        ![r].s3_files = <<>>,
                        ![r].committed = <<>>,
                        ![r].listed = "none",
                        ![r].steps = Append(@, UploadStep(run[r].fam)),
                        ![r].wrote[run[r].fam] =
                            ManifestUrls(objects'[manifest_key(run[r].fam)])]
    /\ UNCHANGED <<call, store, history, tables, snap>>

\* conn = psycopg2.connect(...); cur = conn.cursor()
Connect(r) ==
    /\ run[r].pc = "connect"
    /\ run' = [run EXCEPT ![r].pc = "sql", ![r].batch = 1, ![r].k = 1]
    /\ UNCHANGED <<call, store, objects, history, tables, snap>>

\* the position after statement k of batch b has been committed
AfterStatement(b, k) ==
    IF k < Len(Batches[b]) THEN [pc |-> "sql", batch |-> b, k |-> k + 1]
    ELSE IF b < Len(Batches) THEN [pc |-> "sql", batch |-> b + 1, k |-> 1]
    ELSE [pc |-> "close", batch |-> b, k |-> k]

\* the family a statement loads, 0 when it is no COPY
CopyFamily(query) ==
    IF query = "staging_events_copy" THEN 1
    ELSE IF query = "staging_songs_copy" THEN 2 ELSE 0

\* the statement has been executed and committed with the effect res
Committed(r, query, res, next) ==
    /\ res.ok
    /\ tables' = res.tables
    /\ history' = res.history
    /\ run' = [run EXCEPT
                  ![r].pc = next.pc, ![r].batch = next.batch, ![r].k = next.k,
                  ![r].steps = Append(@, query),
                  ![r].loaded = IF CopyFamily(query) = 0 THEN @
                                ELSE [@ EXCEPT ![CopyFamily(query)] =
                                         Some(SetOf(res.files))]]

\* cur.execute(query); conn.commit() for the next statement of the run
ExecStatement(r) ==
    /\ run[r].pc = "sql"
    /\ Committed(r, Batches[run[r].batch][run[r].k],
                 Execute(Batches[run[r].batch][run[r].k], tables, history, r),
                 AfterStatement(run[r].batch, run[r].k))
    /\ UNCHANGED <<call, store, objects, snap>>

\* (a variant that runs a batch as one transaction: the failure undoes it)
StatementFailsRollsBack(r) ==
    /\ run[r].pc = "sql"
    /\ run' = [run EXCEPT ![r].pc = "failed"]
    /\ tables' = IF run[r].batch = 2 THEN Truncate(tables, "staging_song_log") ELSE tables
    /\ UNCHANGED <<call, store, objects, history, snap>>

\* the statement raises: nothing of it is committed, the error leaves main
StatementFails(r) ==
    /\ run[r].pc = "sql"
    /\ run' = [run EXCEPT ![r].pc = "failed"]
    /\ UNCHANGED <<call, store, objects, history, tables, snap>>

\* conn.close(); return None
Close(r) ==
    /\ run[r].pc = "close"
    /\ run' = [run EXCEPT ![r].pc = "done"]
    /\ snap' = IF \A x \in Runs \ {r} : run[x].pc = "start"
               THEN [taken |-> TRUE, tables |-> tables] ELSE snap
    /\ UNCHANGED <<call, store, objects, history, tables>>

\* the keys of pages of the given sizes: distinct keys, numbered in store order
RECURSIVE PagesOfSizes(_, _)
PagesOfSizes(sizes, first) ==
    IF sizes = <<>> THEN <<>>
    ELSE <<[i \in 1..Head(sizes) |-> first + i - 1]>>
         \o PagesOfSizes(Tail(sizes), first + Head(sizes))

\* a store that serves the first n keys of a family on pages of the given sizes
FamilyStore(fam, sizes) ==
    LET numbered == PagesOfSizes(sizes, 1)
    IN  [pages |-> [p \in DOMAIN numbered |->
                       [i \in DOMAIN numbered[p] |-> Key(fam, numbered[p][i])]],
         cursors |-> [p \in 1..(Len(sizes) - 1) |-> Cursor(p)]]

\* every file of a family on a page of its own
FullStore(fam, n) == FamilyStore(fam, [p \in 1..Max(1, n) |-> IF n = 0 THEN 0 ELSE 1])

AllUris ==
    {Uri(DATA_BUCKET, Key(1, i)) : i \in 1..MaxLogFiles}
        \cup {Uri(DATA_BUCKET, Key(2, i)) : i \in 1..MaxSongFiles}

PipeIdle ==
    /\ store = <<FullStore(1, 0), FullStore(2, 0)>>
    /\ objects = <<>>
    /\ history = {}
    /\ tables = EmptyTables
    /\ run = [r \in Runs |-> IdleRun]
    /\ snap = NoSnap

Pending == [done |-> FALSE]

CallIdle == arg = <<>> /\ ret = Pending

(***************************************************************************)
(* Specification Spec: two pipeline runs over an unchanged store, one      *)
(* after the other (etl.py is started by hand, once per run), starting     *)
(* from empty tables and a load history with at most one file committed.   *)
(* Specification SpecOverlap: the same two runs with their steps           *)
(* interleaved in any way, and no error raised.                            *)
(***************************************************************************)
Init ==
    /\ CallIdle
    /\ store = <<FullStore(1, MaxLogFiles), FullStore(2, MaxSongFiles)>>
    /\ objects = <<>>
    /\ history \in {{}} \cup {{[query |-> 0, filename |-> Pad(u)]} : u \in AllUris}
    /\ tables = EmptyTables
    /\ run = [r \in Runs |-> IdleRun]
    /\ snap = NoSnap

\* no other run is under way
Alone(r) == \A x \in Runs \ {r} : run[x].pc \in {"start", "done", "failed"}

StartAlone(r) == Alone(r) /\ Start(r)

Next ==
    \E r \in Runs :
        \/ StartAlone(r)
        \/ ListFiles(r)
        \/ QueryHistory(r)
        \/ QueryFails(r)
        \/ Upload(r)
        \/ Connect(r)
        \/ ExecStatement(r)
        \/ StatementFails(r)
        \/ Close(r)

Spec == Init /\ [][Next]_vars

InitOverlap ==
    /\ CallIdle
    /\ store = <<FullStore(1, Min(OverlapFiles, MaxLogFiles)),
                 FullStore(2, Min(OverlapFiles, MaxSongFiles))>>
    /\ objects = <<>>
    /\ history \in {{}} \cup {{[query |-> 0, filename |-> Pad(u)]} : u \in AllUris}
    /\ tables = EmptyTables
    /\ run = [r \in Runs |-> IdleRun]
    /\ snap = NoSnap

NextOverlap ==
    \E r \in Runs :
        \/ Start(r)
        \/ ListFilesAt(r, 0)
        \/ QueryHistory(r)
        \/ Upload(r)
        \/ Connect(r)
        \/ ExecStatement(r)
        \/ Close(r)

SpecOverlap == InitOverlap /\ [][NextOverlap]_vars

\* C8: for both file families the staging COPY of a run reads the manifest
\* the same run wrote for that family: it ingests exactly the files that
\* manifest lists.  (Stated for a run that has the warehouse to itself and
\* whose listings met no store error.)
C8_CopyLoadsOwnManifest ==
    \A r \in Runs : \A fam \in Families :
        (run[r].loaded[fam] # None /\ ~run[r].listErr /\ Alone(r)
             /\ \A x \in Runs \ {r} : run[x].pc = "start")
            => /\ run[r].wrote[fam] # None
               /\ run[r].loaded[fam][1] = SetOf(run[r].wrote[fam][1])

\* C9: two complete runs, one after the other over an unchanged store, leave
\* the staging tables and the star tables with the contents the first run
\* left.  (Stated for runs whose listings met no store error.)
C9_SecondRunSameTables ==
    (snap.taken /\ \A r \in Runs : run[r].pc = "done" /\ ~run[r].listErr)
        => tables = snap.tables

\* C10: two overlapping runs can load one file twice.  Whenever the event
\* staging table holds the rows of a file twice, both runs read the load
\* history before either event COPY was committed, both wrote a manifest that
\* lists the file and both loaded it; C10_Witness is such an execution.
C10_DuplicatesComeFromOverlap ==
    \A f \in LogRows :
        tables.staging_song_log[f] >= 2
            => \A r \in Runs :
                   /\ run[r].seen = 0
                   /\ run[r].wrote[1] # None /\ f \in SetOf(run[r].wrote[1][1])
                   /\ run[r].loaded[1] # None /\ f \in run[r].loaded[1][1]

C10_Witness ==
    \E f \in LogRows :
        /\ tables.staging_song_log[f] = 2
        /\ \A r \in Runs :
               /\ run[r].seen = 0
               /\ run[r].wrote[1] # None /\ f \in SetOf(run[r].wrote[1][1])
               /\ run[r].loaded[1] # None /\ f \in run[r].loaded[1][1]

\* C21: the step of a run that completes s3_create_manifest leaves at the
\* manifest key of the family a manifest that lists the new files of this
\* generation, whatever object was there before; every other object of the
\* manifest bucket and the data bucket are as they were, and the generation
\* has made this one write.  No other step changes an object.
C21_UploadWritesOneObject ==
    [][\A r \in Runs :
          LET key == manifest_key(run[r].fam)
              uploads == run[r].pc = "upload" /\ run'[r].pc # "upload"
          IN  /\ uploads
                 => /\ key \in DOMAIN objects'
                    /\ ManifestUrls(objects'[key])
                           \in {Some(f) : f \in compare_files(run[r].committed,
                                                              run[r].s3_files)}
                    /\ DOMAIN objects' = DOMAIN objects \cup {key}
                    /\ \A k \in DOMAIN objects \ {key} : objects'[k] = objects[k]
                    /\ store' = store
                    /\ Len(run'[r].steps) = Len(run[r].steps) + 1
              /\ (\A x \in Runs : run[x].pc = "upload" => run'[x].pc = "upload")
                 => objects' = objects]_vars

\* the second run has replaced the log manifest of the first by a different
\* one, the song manifest of the first run being in the bucket
C21_Witness ==
    /\ run[1].pc = "done"
    /\ run[2].wrote[1] # None /\ run[2].wrote[2] = None
    /\ run[2].wrote[1] # run[1].wrote[1]
    /\ ManifestUrls(objects[MANIFEST_LOG]) = run[2].wrote[1]
    /\ ManifestUrls(objects[MANIFEST_SONG]) = run[1].wrote[2]

\* C24: the step in which the history query of a generation raises writes no
\* object and changes no table; the run has uploaded no manifest for that
\* family, so what was stored at the key is still there.  From then on the run
\* takes no step: it has executed no statement, and whenever a table or an
\* object changes later it is the other run that has taken the step.
C24_QueryFailureWritesNothing ==
    [][\A r \in Runs :
          LET raises == run[r].pc = "query" /\ run'[r].pc = "failed"
              raised == run[r].pc = "failed" /\ run[r].wrote[2] = None
          IN  /\ raises
                 => /\ objects' = objects
                    /\ tables' = tables
                    /\ history' = history
                    /\ run'[r].wrote = run[r].wrote
                    /\ run'[r].wrote[run[r].fam] = None
              /\ raised
                 => /\ run'[r] = run[r]
                    /\ run[r].loaded = <<None, None>>
                    /\ \A i \in DOMAIN run[r].steps :
                           run[r].steps[i] \in {"manifest_log", "manifest_song"}
                    /\ (tables' # tables \/ objects' # objects)
                           => \E x \in Runs \ {r} : run'[x] # run[x]]_vars

\* the history query of the second run has raised in its log generation: the
\* log manifest of the first run is still stored and the tables are as the
\* first run left them
C24_Witness ==
    /\ run[1].pc = "done"
    /\ run[2].pc = "failed"
    /\ run[2].wrote = <<None, None>>
    /\ run[1].wrote[1] # None /\ run[1].wrote[1][1] # <<>>
    /\ ManifestUrls(objects[MANIFEST_LOG]) = run[1].wrote[1]
    /\ snap.taken /\ tables = snap.tables

(***************************************************************************)
(* Specification SpecRun: one pipeline run, any statement of which may     *)
(* raise, from the initial states of Spec.                                 *)
(***************************************************************************)
NextRun ==
    \/ Start(1)
    \/ ListFiles(1)
    \/ QueryHistory(1)
    \/ QueryFails(1)
    \/ Upload(1)
    \/ Connect(1)
    \/ ExecStatement(1)
    \/ StatementFails(1)
    \/ Close(1)

SpecRun == Init /\ [][NextRun]_vars

\* the statements of a run in the order main() reaches them
Statements == Concat(Batches)

\* the statements among the steps a run has completed
StatementsDone(r) ==
    SelectSeq(run[r].steps, LAMBDA x : x \notin {UploadStep(1), UploadStep(2)})

\* the committed effect of statement query on the outcome prev of the ones before
ExecuteOn(query, prev, qid) ==
    IF prev.ok THEN Execute(query, prev.tables, prev.history, qid) ELSE prev

\* the committed effect of the first n statements of qs, one after the other
RECURSIVE Replay(_, _, _, _, _)
Replay(qs, n, tbl, hist, qid) ==
    IF n = 0 THEN Ok(tbl, hist, <<>>)
    ELSE ExecuteOn(qs[n], Replay(qs, n - 1, tbl, hist, qid), qid)

\* the load history as it was before any run
BaseHistory == {h \in history : h.query = 0}

\* a statement of the run has raised (both manifests were uploaded before)
FailedInSql(r) == run[r].pc = "failed" /\ run[r].wrote[2] # None

\* C11: when statement k of a batch raises, the error leaves the run, the
\* statements before it (of this batch and of the batches before) are the
\* statements completed, in order; their effects, and nothing else, are in the
\* tables and in the load history: nothing of statement k or of a later
\* statement, and nothing rolled back.
C11_FailureKeepsEarlierCommits ==
    \A r \in Runs :
        FailedInSql(r) =>
            LET done == StatementsDone(r)
                n == Len(done)
                after == Replay(Statements, n, EmptyTables, BaseHistory, r)
            IN  /\ n < Len(Statements)
                /\ done = SubSeq(Statements, 1, n)
                /\ Batches[run[r].batch][run[r].k] = Statements[n + 1]
                /\ after.ok
                /\ tables = after.tables
                /\ history = after.history

\* the song COPY raises after the event COPY has loaded both log files
C11_Witness ==
    /\ FailedInSql(1)
    /\ run[1].batch = 2 /\ run[1].k = 2
    /\ \A f \in LogRows : tables.staging_song_log[f] = 1
    /\ \A f \in SongRows : tables.staging_song_data[f] = 0

\* C17: the steps of a run happen in one order, none twice: log manifest,
\* song manifest, staging truncates, staging copies, star truncates, star
\* inserts.  No staging table is truncated or loaded before both manifests are
\* in the store, each staging table is truncated before it is loaded, no star
\* insert runs before both copies, and a run that ends has done all of them.
C17_FixedStepOrder ==
    \A r \in Runs :
        LET steps == run[r].steps
            Stage(x) ==
                CASE x = "manifest_log" -> 1
                  [] x = "manifest_song" -> 2
                  [] x \in {"truncate_staging_events", "truncate_staging_songs"} -> 3
                  [] x \in {"staging_events_copy", "staging_songs_copy"} -> 4
                  [] x \in {"truncate_artist_table", "truncate_song_table",
                            "truncate_user_table", "truncate_songplay_table"} -> 5
                  [] x \in {"user_table_insert", "artist_table_insert",
                            "song_table_insert", "songplay_table_insert"} -> 6
            Before(a, b) ==
                \A j \in DOMAIN steps :
                    steps[j] = b => \E i \in 1..(j - 1) : steps[i] = a
        IN  /\ \A i, j \in DOMAIN steps :
                   i < j => steps[i] # steps[j] /\ Stage(steps[i]) <= Stage(steps[j])
            /\ \A j \in DOMAIN steps :
                   Stage(steps[j]) \in {3, 4}
                       => /\ Before("manifest_log", steps[j])
                          /\ Before("manifest_song", steps[j])
                          /\ {MANIFEST_LOG, MANIFEST_SONG} \subseteq DOMAIN objects
            /\ Before("truncate_staging_events", "staging_events_copy")
            /\ Before("truncate_staging_songs", "staging_songs_copy")
            /\ \A j \in DOMAIN steps :
                   Stage(steps[j]) = 6
                       => /\ Before("staging_events_copy", steps[j])
                          /\ Before("staging_songs_copy", steps[j])
                          /\ run[r].loaded[1] # None /\ run[r].loaded[2] # None
            /\ run[r].pc \in {"close", "done"} => Len(steps) = 14

\* a run has gone through all its steps and has loaded log rows
C17_Witness ==
    /\ run[1].pc = "done"
    /\ Len(run[1].steps) = 14
    /\ run[1].steps[1] = "manifest_log" /\ run[1].steps[14] = "songplay_table_insert"
    /\ \E f \in LogRows : tables.staging_song_log[f] > 0

\* C18: of each statement list, the statements a run has completed are the
\* first ones of the list in its declaration order (copies: events, songs;
\* inserts: user, artist, song, songplay), and the effects of all of them are
\* committed, one after the other, when the next statement is reached: an
\* insert that joins a dimension table finds what the insert into it put there.
C18_ListsInDeclarationOrder ==
    \A r \in Runs :
        LET done == StatementsDone(r)
            Of(list) == SelectSeq(done, LAMBDA x : x \in SetOf(list))
            InOrder(list) == Of(list) = SubSeq(list, 1, Len(Of(list)))
            after == Replay(done, Len(done), EmptyTables, BaseHistory, r)
            Has(x) == x \in SetOf(done)
        IN  /\ InOrder(<<"truncate_staging_events", "truncate_staging_songs">>)
            /\ InOrder(<<"staging_events_copy", "staging_songs_copy">>)
            /\ InOrder(<<"truncate_artist_table", "truncate_song_table",
                         "truncate_user_table", "truncate_songplay_table">>)
            /\ InOrder(<<"user_table_insert", "artist_table_insert",
                         "song_table_insert", "songplay_table_insert">>)
            /\ Has("song_table_insert") => Has("artist_table_insert")
            /\ Has("songplay_table_insert")
                   => /\ Has("user_table_insert") /\ Has("artist_table_insert")
                      /\ Has("song_table_insert")
            /\ run[r].pc \in {"sql", "close", "done"}
                   => after.ok /\ tables = after.tables /\ history = after.history

\* the songplay insert has joined rows the three dimension inserts committed
C18_Witness ==
    /\ run[1].pc = "close"
    /\ \E f \in LogRows :
           /\ tables.dim_user[f] = 1
           /\ tables.dim_artist[Played(f)] = 1
           /\ tables.dim_song[Played(f)] = 1
           /\ tables.fact_songplay[f] = 1

(***************************************************************************)
(* Specification SpecGenerate: the two calls of aws_generate_manifest of   *)
(* one run (no limit), against any store and any load history within the   *)
(* bounds.                                                                 *)
(***************************************************************************)
\* up to max files of a family, each on a page of its own or all on one page
GenStores(fam, max) ==
    {FullStore(fam, n) : n \in 0..max}
        \cup {FamilyStore(fam, <<n>>) : n \in 0..Min(max, MaxPageLen)}

\* filenames of a load history: the files of the bucket as the loader records
\* them, and names that only contain a prefix
GenNames ==
    {Pad(u) : u \in AllUris}
        \cup {<<"x", "log", "-2020">>, <<"s3://", "other", "/", "log", "/", "1">>}

InitGenerate ==
    /\ CallIdle
    /\ store \in GenStores(1, MaxLogFiles) \X {FullStore(2, MaxSongFiles)}
    /\ objects = <<>>
    /\ history \in {rows \in SUBSET [query : {0}, filename : GenNames] :
                       Cardinality(rows) <= MaxRows}
    /\ tables = EmptyTables
    /\ run = [r \in Runs |-> IF r = 1 THEN [IdleRun EXCEPT !.pc = "list"] ELSE IdleRun]
    /\ snap = NoSnap

NextGenerate ==
    \/ ListFiles(1)
    \/ QueryHistory(1)
    \/ QueryFails(1)
    \/ Upload(1)

SpecGenerate == InitGenerate /\ [][NextGenerate]_vars

\* C1: the manifest a generation uploads lists no committed filename and no
\* url twice, and when every page of the listing was received it lists
\* exactly the uris s3://<data_bucket>/<k> of the store keys k under the
\* prefix that are not among the committed filenames.
C1_ManifestIsStoreMinusCommitted ==
    [][\A r \in Runs :
          (run[r].pc = "upload" /\ run'[r].pc # "upload")
              => LET fam == run[r].fam
                     urls == ManifestUrls(objects'[manifest_key(fam)])
                     C == SetOf(run[r].committed)
                     K == SetOf(StoreKeys(fam))
                 IN  /\ urls # None
                     /\ NoDup(urls[1])
                     /\ SetOf(urls[1]) \cap C = {}
                     /\ run[r].listed = "break"
                            => SetOf(urls[1]) = {<<"s3://", DATA_BUCKET, "/">> \o k : k \in K} \ C
      ]_vars

\* C15: when the store listing of a manifest generation fails and the history
\* query succeeds, the generation uploads a manifest, that manifest has no
\* entry, and the run goes on.  (Stated for the first generation of a run, at
\* the moment the run turns to the second one.)
C15_ListErrorGivesEmptyManifest ==
    \A r \in Runs :
        (run[r].listErr /\ run[r].pc = "list" /\ run[r].fam = 2)
            => /\ run[r].wrote[1] # None
               /\ run[r].wrote[1][1] = <<>>

\* C23: in a generation whose listing received every page, a store file is
\* left out of the manifest exactly when some filename of the load history is,
\* blanks at its ends apart, the text s3://<data_bucket>/<key> of the file.  A
\* filename that only contains the prefix or the key, or names another
\* bucket, leaves no file out.
C23_ExcludedIffCommittedUri ==
    \A r \in Runs : \A fam \in Families :
        (run[r].wrote[fam] # None /\ ~run[r].listErr)
            => \A key \in SetOf(Concat(store[fam].pages)) :
                   LET uri == <<"s3://", DATA_BUCKET, "/">> \o key
                       IsUri(f) ==
                           \E i, j \in 1..Len(f) :
                               /\ SubSeq(f, i, j) = uri
                               /\ \A n \in (1..(i - 1)) \cup ((j + 1)..Len(f)) :
                                      f[n] = Blank
                   IN  uri \notin SetOf(run[r].wrote[fam][1])
                           <=> \E h \in history : IsUri(h.filename)

\* of two log files the history names the first, blank padded, and the second
\* under another bucket: the manifest lists the second only
C23_Witness ==
    /\ run[1].wrote[1] = Some(<<Uri(DATA_BUCKET, Key(1, 2))>>)
    /\ ~run[1].listErr
    /\ Len(Concat(store[1].pages)) = 2
    /\ history = {[query |-> 0, filename |-> Pad(Uri(DATA_BUCKET, Key(1, 1)))],
                  [query |-> 0, filename |-> Uri("other", Key(1, 1))]}

\* the scenario of the specification: two keys in the store, the first one
\* committed, and the manifest lists the second one alone
C1_Witness ==
    /\ StoreKeys(1) = <<Key(1, 1), Key(1, 2)>>
    /\ [query |-> 0, filename |-> <<"s3://", DATA_BUCKET, "/", "log", "/", "1", Blank>>] \in history
    /\ ~run[1].listErr
    /\ run[1].wrote[1] = Some(<<(<<"s3://", DATA_BUCKET, "/", "log", "/", "2">>)>>)
    /\ MANIFEST_LOG \in DOMAIN objects

(***************************************************************************)
(* The time dimension (populate_date_time.create_dim_time_csv) and the     *)
(* time key songplay_table_insert computes from an event timestamp ts      *)
(* (milliseconds since the epoch).                                         *)
(***************************************************************************)
SecondsPerDay == 86400

\* the two digits of n < 100, as f"{n:02}" and TO_CHAR write them
TwoDigits(n) == <<n \div 10, n % 10>>

HourOf(s) == s \div 3600

MinuteOf(s) == (s % 3600) \div 60

SecondOf(s) == s % 60

AmPmNoonIsAm(s) == IF s \div 3600 <= 12 THEN "AM" ELSE "PM"

\* "AM" if s // 3600 < 12 else "PM"
AmPm(s) == IF s \div 3600 < 12 THEN "AM" ELSE "PM"

\* the row of second s of the day
DimTimeRow(s) ==
    [time_key |-> s,
     time_key_sql |-> <<TwoDigits(HourOf(s)), TwoDigits(MinuteOf(s)), TwoDigits(SecondOf(s))>>,
     hour |-> HourOf(s),
     minute |-> MinuteOf(s),
     second |-> SecondOf(s),
     am_pm |-> AmPm(s)]

\* seconds = range(86400), which is also the time_key column
seconds == 0..(SecondsPerDay - 1)

\* df_time: one row per element of seconds, held by its time_key
create_dim_time_csv == [s \in seconds |-> DimTimeRow(s)]

\* TIMESTAMP 'epoch' + ts/1000 * INTERVAL '1 second': the second of its day
\* (ts is a BIGINT, the division is the integer one)
SecondOfDay(ts) == (ts \div 1000) % SecondsPerDay

\* TO_CHAR(..., 'HH24MISS'): six digits
ToCharHH24MISS(s) == TwoDigits(HourOf(s)) \o TwoDigits(MinuteOf(s)) \o TwoDigits(SecondOf(s))

\* CAST(<digits> AS INTEGER)
RECURSIVE CastInteger(_)
CastInteger(digits) ==
    IF digits = <<>> THEN 0
    ELSE 10 * CastInteger(SubSeq(digits, 1, Len(digits) - 1)) + digits[Len(digits)]

\* the start_time_key column of songplay_table_insert
start_time_key(ts) == CastInteger(ToCharHH24MISS(SecondOfDay(ts)))

(***************************************************************************)
(* Specification SpecTime: the time dimension is generated and the time    *)
(* key of one event is computed, in either order.                          *)
(***************************************************************************)
MaxDays == 1        \* days after the epoch the sample timestamps reach

SampleSeconds == {0, 1, 59, 60, 61, 3599, 3600, 3661, 35999, 36000, 43199, 43200, 86399}

SampleTs ==
    {(d * SecondsPerDay + s) * 1000 + ms :
        d \in 0..MaxDays, s \in SampleSeconds, ms \in {0, 999}}

InitTime ==
    /\ arg \in [ts : SampleTs]
    /\ ret = [start_time_key |-> None, time_rows |-> None]
    /\ PipeIdle

\* the fact row of the event is inserted
CallSongplayInsert ==
    /\ ret.start_time_key = None
    /\ ret' = [ret EXCEPT !.start_time_key = Some(start_time_key(arg.ts))]
    /\ UNCHANGED <<arg, pipe>>

\* the foreign key is followed: the rows of dim_time with the fact row's key
JoinDimTime ==
    /\ ret.start_time_key # None
    /\ ret.time_rows = None
    /\ ret' = [ret EXCEPT !.time_rows =
                  Some({create_dim_time_csv[key] :
                           key \in DOMAIN create_dim_time_csv \cap {ret.start_time_key[1]}})]
    /\ UNCHANGED <<arg, pipe>>

NextTime == CallSongplayInsert \/ JoinDimTime

SpecTime == InitTime /\ [][NextTime]_vars

\* C12: the start_time_key of an event is one of the keys 0..86399 and
\* resolves to the time dimension row of the event's second of day.
C12_TimeKeyResolves ==
    ret.time_rows # None
        => /\ ret.start_time_key[1] \in 0..86399
           /\ ret.time_rows[1] = {DimTimeRow(SecondOfDay(arg.ts))}

(***************************************************************************)
(* Specification SpecDimTime: create_dim_time_csv generates the table and  *)
(* the row of one time_key, any of them, is read back.                     *)
(***************************************************************************)
InitDimTime ==
    /\ arg \in [time_key : seconds]
    /\ ret = Pending
    /\ PipeIdle

CallDimTimeRow ==
    /\ ~ret.done
    /\ ret' = [done |-> TRUE,
               rows |-> Cardinality(DOMAIN create_dim_time_csv),
               row |-> create_dim_time_csv[arg.time_key]]
    /\ UNCHANGED <<arg, pipe>>

NextDimTime == CallDimTimeRow

SpecDimTime == InitDimTime /\ [][NextDimTime]_vars

\* C16: the time dimension has 86,400 rows, one for each time_key s in
\* 0..86399, with hour = s div 3600 in 0..23, minute and second in 0..59,
\* hour*3600 + minute*60 + second = s, and am_pm AM exactly when hour < 12.
C16_DimTimeRows ==
    ret.done
        => /\ ret.rows = 86400
           /\ arg.time_key \in 0..86399
           /\ ret.row.time_key = arg.time_key
           /\ ret.row.hour = arg.time_key \div 3600
           /\ ret.row.hour \in 0..23
           /\ ret.row.minute \in 0..59
           /\ ret.row.second \in 0..59
           /\ ret.row.hour * 3600 + ret.row.minute * 60 + ret.row.second = arg.time_key
           /\ ret.row.am_pm \in {"AM", "PM"}
           /\ (ret.row.am_pm = "AM") <=> (ret.row.hour < 12)

\* the row of noon
C16_Witness ==
    /\ ret.done
    /\ arg.time_key = 43200
    /\ ret.row = [time_key |-> 43200, time_key_sql |-> <<(<<1, 2>>), <<0, 0>>, <<0, 0>>>>,
                  hour |-> 12, minute |-> 0, second |-> 0, am_pm |-> "PM"]

(***************************************************************************)
(* create_tables.py: the schema setup                                      *)
(*                                                                         *)
(* In a setup, tables tells for each of the eight tables whether there is  *)
(* such a table (None: there is none) and the number of rows it holds, and *)
(* objects is the manifest bucket, to which the date and time files go.    *)
(* A CSV file is held as its number of lines.  ret is the setup process:   *)
(* its position pc (k: the statement of the list it is at), the local      *)
(* directory data/ (None: there is no such directory, else file name ->    *)
(* file) and, in steps, what it has completed, in order.                   *)
(***************************************************************************)
TableNames ==
    {"staging_song_log", "staging_song_data", "fact_songplay", "dim_user",
     "dim_song", "dim_artist", "dim_time", "dim_date"}

\* (a variant that leaves the staging tables alone)
DropsWithoutStaging ==
    <<"songplay_table_drop", "user_table_drop", "song_table_drop",
      "artist_table_drop", "time_table_drop", "date_table_drop">>

drop_table_queries ==
    <<"staging_events_table_drop", "staging_songs_table_drop",
      "songplay_table_drop", "user_table_drop", "song_table_drop",
      "artist_table_drop", "time_table_drop", "date_table_drop">>

\* (a variant that creates the fact table before the dimension tables)
CreatesSongplayFirst ==
    <<"staging_events_table_create", "staging_songs_table_create",
      "songplay_table_create", "time_table_create", "date_table_create",
      "user_table_create", "artist_table_create", "song_table_create">>

create_table_queries ==
    <<"staging_events_table_create", "staging_songs_table_create",
      "time_table_create", "date_table_create", "user_table_create",
      "artist_table_create", "song_table_create", "songplay_table_create">>

populate_datetime_queries == <<"date_table_copy", "time_table_copy">>

\* FOREIGN KEY (...) REFERENCES <table>: the tables a table references
References ==
    [name \in TableNames |->
        CASE name = "fact_songplay" ->
                 {"dim_date", "dim_time", "dim_user", "dim_artist", "dim_song"}
          [] name = "dim_song" -> {"dim_artist"}
          [] OTHER -> {}]

\* DROP TABLE IF EXISTS <name>
DropTableIfExists(tbl, name) == [ok |-> TRUE, tables |-> [tbl EXCEPT ![name] = None]]

\* CREATE TABLE IF NOT EXISTS <name> (...): an existing table is left as it is
CreateTableIfNotExists(tbl, name) ==
    [ok |-> TRUE,
     tables |-> IF tbl[name] = None THEN [tbl EXCEPT ![name] = Some(0)] ELSE tbl]

\* COPY <name> FROM 's3://{MANIFEST_BUCKET}/<key>' FORMAT AS CSV IGNOREHEADER 1:
\* the lines of the file after the first are appended to the table
CopyCsv(tbl, bucket, name, key) ==
    IF tbl[name] = None \/ key \notin DOMAIN bucket
    THEN [ok |-> FALSE, tables |-> tbl]
    ELSE [ok |-> TRUE,
          tables |-> [tbl EXCEPT ![name] = Some(@[1] + Max(0, bucket[key].lines - 1))]]

\* cur.execute(query); conn.commit() for a statement of the setup
ExecuteSetup(query, tbl, bucket) ==
    CASE query = "staging_events_table_drop" -> DropTableIfExists(tbl, "staging_song_log")
      [] query = "staging_songs_table_drop" -> DropTableIfExists(tbl, "staging_song_data")
      [] query = "songplay_table_drop" -> DropTableIfExists(tbl, "fact_songplay")
      [] query = "user_table_drop" -> DropTableIfExists(tbl, "dim_user")
      [] query = "song_table_drop" -> DropTableIfExists(tbl, "dim_song")
      [] query = "artist_table_drop" -> DropTableIfExists(tbl, "dim_artist")
      [] query = "time_table_drop" -> DropTableIfExists(tbl, "dim_time")
      [] query = "date_table_drop" -> DropTableIfExists(tbl, "dim_date")
      [] query = "staging_events_table_create" -> CreateTableIfNotExists(tbl, "staging_song_log")
      [] query = "staging_songs_table_create" -> CreateTableIfNotExists(tbl, "staging_song_data")
      [] query = "time_table_create" -> CreateTableIfNotExists(tbl, "dim_time")
      [] query = "date_table_create" -> CreateTableIfNotExists(tbl, "dim_date")
      [] query = "user_table_create" -> CreateTableIfNotExists(tbl, "dim_user")
      [] query = "artist_table_create" -> CreateTableIfNotExists(tbl, "dim_artist")
      [] query = "song_table_create" -> CreateTableIfNotExists(tbl, "dim_song")
      [] query = "songplay_table_create" -> CreateTableIfNotExists(tbl, "fact_songplay")
      [] query = "date_table_copy" -> CopyCsv(tbl, bucket, "dim_date", "dim_date.csv")
      [] query = "time_table_copy" -> CopyCsv(tbl, bucket, "dim_time", "dim_time.csv")

\* df.to_csv(file_path, index=False): a header line and one line per row
to_csv(rows) == [lines |-> 1 + rows]

\* pd.date_range(start="2015-01-01", end="2025-12-31"): one row per day
FirstYear == 2015

LastYear == 2025

DaysInYear(y) == IF y % 4 = 0 /\ (y % 100 # 0 \/ y % 400 = 0) THEN 366 ELSE 365

RECURSIVE DaysFrom(_)
DaysFrom(y) == IF y > LastYear THEN 0 ELSE DaysInYear(y) + DaysFrom(y + 1)

dates == DaysFrom(FirstYear)

\* create_dim_date_csv(): writes data/dim_date.csv, the directory being there
create_dim_date_csv(data) ==
    put_object(data[1], "dim_date.csv", to_csv(dates))

\* create_dim_time_csv(): os.makedirs("data", exist_ok=True), then writes
\* data/dim_time.csv
WriteDimTimeCsv(data) ==
    put_object(IF data = None THEN <<>> ELSE data[1], "dim_time.csv",
               to_csv(Cardinality(DOMAIN create_dim_time_csv)))

\* s3.upload_file(Filename="./data/<name>", Bucket=bucket_name, Key="<name>")
upload_file(bucket, data, name) == put_object(bucket, name, data[1][name])

\* the position after statement k of the list at pc has been committed
AfterSetupStatement(pc, k) ==
    CASE pc = "drop" -> IF k < Len(drop_table_queries)
                        THEN [pc |-> "drop", k |-> k + 1] ELSE [pc |-> "create", k |-> 1]
      [] pc = "create" -> IF k < Len(create_table_queries)
                          THEN [pc |-> "create", k |-> k + 1] ELSE [pc |-> "date_csv", k |-> 1]
      [] pc = "populate" -> IF k < Len(populate_datetime_queries)
                            THEN [pc |-> "populate", k |-> k + 1] ELSE [pc |-> "close", k |-> 1]

SetupQueries(pc) ==
    CASE pc = "drop" -> drop_table_queries
      [] pc = "create" -> create_table_queries
      [] pc = "populate" -> populate_datetime_queries

\* the loop body of drop_tables, of create_tables and of its populate loop:
\* cur.execute(query); conn.commit()
SetupStatement(pc) ==
    /\ ret.pc = pc
    /\ LET query == SetupQueries(pc)[ret.k]
           res == ExecuteSetup(query, tables, objects)
           next == AfterSetupStatement(pc, ret.k)
       IN  /\ res.ok
           /\ tables' = res.tables
           /\ ret' = [ret EXCEPT !.pc = next.pc, !.k = next.k,
                                 !.steps = Append(@, query)]
    /\ UNCHANGED <<arg, store, objects, history, run, snap>>

DropTables == SetupStatement("drop")

CreateTables == SetupStatement("create")

PopulateDateTime == SetupStatement("populate")

\* a statement or an upload raises: the error leaves main
SetupRaises ==
    /\ ret.pc \in {"drop", "create", "upload_date", "upload_time", "populate"}
    /\ ret' = [ret EXCEPT !.pc = "failed", !.done = TRUE]
    /\ UNCHANGED <<arg, pipe>>

\* s3_upload_date_time: create_dim_date_csv()
CreateDimDateCsv ==
    /\ ret.pc = "date_csv"
    /\ ret.data # None
    /\ ret' = [ret EXCEPT !.pc = "time_csv",
                          !.data = Some(create_dim_date_csv(ret.data)),
                          !.steps = Append(@, "create_dim_date_csv")]
    /\ UNCHANGED <<arg, pipe>>

\* to_csv raises when there is no directory data/: the error leaves main
CreateDimDateCsvRaises ==
    /\ ret.pc = "date_csv"
    /\ ret.data = None
    /\ ret' = [ret EXCEPT !.pc = "failed", !.done = TRUE]
    /\ UNCHANGED <<arg, pipe>>

\* s3_upload_date_time: create_dim_time_csv()
CreateDimTimeCsv ==
    /\ ret.pc = "time_csv"
    /\ ret' = [ret EXCEPT !.pc = "upload_date",
                          !.data = Some(WriteDimTimeCsv(ret.data)),
                          !.steps = Append(@, "create_dim_time_csv")]
    /\ UNCHANGED <<arg, pipe>>

\* upload_to_s3: the upload of dim_date.csv
UploadDimDate ==
    /\ ret.pc = "upload_date"
    /\ objects' = upload_file(objects, ret.data, "dim_date.csv")
    /\ ret' = [ret EXCEPT !.pc = "upload_time", !.steps = Append(@, "upload_dim_date")]
    /\ UNCHANGED <<arg, store, history, tables, run, snap>>

\* upload_to_s3: the upload of dim_time.csv
UploadDimTime ==
    /\ ret.pc = "upload_time"
    /\ objects' = upload_file(objects, ret.data, "dim_time.csv")
    /\ ret' = [ret EXCEPT !.pc = "populate", !.k = 1,
                          !.steps = Append(@, "upload_dim_time")]
    /\ UNCHANGED <<arg, store, history, tables, run, snap>>

\* conn.close(); return None
SetupClose ==
    /\ ret.pc = "close"
    /\ ret' = [ret EXCEPT !.pc = "done", !.done = TRUE]
    /\ UNCHANGED <<arg, pipe>>

(***************************************************************************)
(* Specification SpecSetup: one schema setup, any statement or upload of   *)
(* which may raise.  Before it, any of the eight tables may be there,      *)
(* holding rows; the bucket and the directory data/ may hold the files of  *)
(* an earlier setup, and the directory may be missing.  arg.held and       *)
(* arg.files are the tables and the bucket as they were before the setup.  *)
(***************************************************************************)
OldRows == 5      \* the rows of a table that is there before the setup

OldFiles ==
    put_object(put_object(<<>>, "dim_date.csv", to_csv(OldRows)),
               "dim_time.csv", to_csv(OldRows))

InitSetup ==
    /\ tables \in [TableNames -> {None, Some(OldRows)}]
    /\ objects \in {<<>>, OldFiles}
    /\ arg = [held |-> tables, files |-> objects]
    /\ ret \in {[done |-> FALSE, pc |-> "drop", k |-> 1, data |-> d, steps |-> <<>>] :
                   d \in {None, Some(<<>>), Some(OldFiles)}}
    /\ store = <<FullStore(1, 0), FullStore(2, 0)>>
    /\ history = {}
    /\ run = [r \in Runs |-> IdleRun]
    /\ snap = NoSnap

NextSetup ==
    \/ DropTables
    \/ CreateTables
    \/ CreateDimDateCsv
    \/ CreateDimDateCsvRaises
    \/ CreateDimTimeCsv
    \/ UploadDimDate
    \/ UploadDimTime
    \/ PopulateDateTime
    \/ SetupRaises
    \/ SetupClose

SpecSetup == InitSetup /\ [][NextSetup]_vars

\* C19: in a setup the eight drops are completed before any create, the eight
\* creates before the date and time files are uploaded, both uploads before
\* either COPY.  When the setup completes, all eight tables are there,
\* dim_date and dim_time hold the rows of the generated files (one per day of
\* 2015..2025, one per second of the day) and the six other tables are empty,
\* whatever the tables held before.
C19_SetupOrder ==
    LET steps == ret.steps
        Before(a, b) ==
            \A j \in DOMAIN steps :
                steps[j] = b => \E i \in 1..(j - 1) : steps[i] = a
        Drops == {"staging_events_table_drop", "staging_songs_table_drop",
                  "songplay_table_drop", "user_table_drop", "song_table_drop",
                  "artist_table_drop", "time_table_drop", "date_table_drop"}
        Creates == {"staging_events_table_create", "staging_songs_table_create",
                    "time_table_create", "date_table_create", "user_table_create",
                    "artist_table_create", "song_table_create",
                    "songplay_table_create"}
        Uploads == {"upload_dim_date", "upload_dim_time"}
        Copies == {"date_table_copy", "time_table_copy"}
    IN  /\ \A d \in Drops : \A c \in Creates : Before(d, c)
        /\ \A c \in Creates : \A u \in Uploads : Before(c, u)
        /\ \A u \in Uploads : \A c \in Copies : Before(u, c)
        /\ (/\ \E j \in DOMAIN steps : steps[j] \in Creates
            /\ \A j \in DOMAIN steps : steps[j] \notin Copies)
               => \A name \in TableNames : tables[name] \in {None, Some(0)}
        /\ (\E j \in DOMAIN steps : steps[j] \in Copies)
               => {"dim_date.csv", "dim_time.csv"} \subseteq DOMAIN objects
        /\ ret.pc = "done"
               => /\ Drops \cup Creates \cup Uploads \cup Copies \subseteq SetOf(steps)
                  /\ \A name \in TableNames : tables[name] # None
                  /\ tables["dim_date"] = Some(4018)
                  /\ tables["dim_time"] = Some(86400)
                  /\ \A name \in TableNames \ {"dim_date", "dim_time"} :
                         tables[name] = Some(0)

\* a setup has completed over eight tables that held rows, with stale files
\* in the bucket
C19_Witness ==
    /\ ret.pc = "done"
    /\ \A name \in TableNames : arg.held[name] = Some(OldRows)
    /\ arg.files = OldFiles
    /\ tables["dim_time"] = Some(86400)

\* the tables that are there reference only tables that are there
ReferencesExist(tbl) ==
    \A name \in TableNames :
        tbl[name] # None => \A ref \in References[name] : tbl[ref] # None

\* C26: in a setup that starts with every table that exists referencing only
\* tables that exist, this is so after every statement of the setup: a
\* referencing table is dropped before the tables it references and created
\* after them.
C26_ReferencedTablesExist ==
    ReferencesExist(arg.held)
        => /\ ReferencesExist(tables)
           /\ \A j \in DOMAIN ret.steps :
                  /\ ret.steps[j] \in {"user_table_drop", "song_table_drop",
                                      "artist_table_drop", "time_table_drop",
                                      "date_table_drop"}
                         => \E i \in 1..(j - 1) : ret.steps[i] = "songplay_table_drop"
                  /\ ret.steps[j] = "artist_table_drop"
                         => \E i \in 1..(j - 1) : ret.steps[i] = "song_table_drop"
                  /\ ret.steps[j] = "songplay_table_create"
                         => \A c \in {"time_table_create", "date_table_create",
                                      "user_table_create", "artist_table_create",
                                      "song_table_create"} :
                                \E i \in 1..(j - 1) : ret.steps[i] = c
                  /\ ret.steps[j] = "song_table_create"
                         => \E i \in 1..(j - 1) : ret.steps[i] = "artist_table_create"

\* of eight tables the fact table and dim_user have been dropped, dim_song is
\* the next: dim_song and the tables it and nothing else references are there
C26_Witness ==
    /\ ReferencesExist(arg.held)
    /\ \A name \in TableNames : arg.held[name] # None
    /\ ret.pc = "drop" /\ ret.k = 5
    /\ tables["fact_songplay"] = None /\ tables["dim_user"] = None
    /\ tables["dim_song"] # None /\ tables["dim_artist"] # None

(***************************************************************************)
(* Specification SpecList: one call of s3_list_bucket_files against any    *)
(* store within the bounds.                                                *)
(***************************************************************************)
Stores ==
    {[pages |-> PagesOfSizes(sizes, 1), cursors |-> cursors, failAt |-> f] :
        <<sizes, cursors, f>> \in UNION {
            [1..P -> 0..MaxPageLen]
            \X {c \in [1..(P-1) -> {""} \cup {Cursor(i) : i \in 1..MaxPages}] :
                    \A i \in 1..(P-1) : c[i] \in {"", Cursor(i)}}
            \X (0..(MaxPages + 1)) : P \in 1..MaxPages}}

Limits == {None} \cup {Some(n) : n \in 0..MaxLimit}

InitList ==
    /\ arg \in [store : Stores, limit : Limits]
    /\ ret = Pending
    /\ PipeIdle

CallList ==
    /\ ~ret.done
    /\ ret' = s3_list_bucket_files(arg.store, arg.limit)
    /\ UNCHANGED <<arg, pipe>>

NextList == CallList

SpecList == InitList /\ [][NextList]_vars

AllKeys(s3) == Concat(s3.pages)

\* C3: without a limit and with every page request answered, the result is the
\* concatenation of the keys of page 1, ..., page P in that order, no key
\* omitted and none repeated.
C3_PaginationConcat ==
    (ret.done /\ ret.returned /\ ret.outcome = "break" /\ arg.limit = None)
        => /\ ret.files = AllKeys(arg.store)
           /\ NoDup(ret.files)

C3_Witness ==
    /\ ret.done /\ ret.returned /\ ret.outcome = "break" /\ arg.limit = None
    /\ Len(arg.store.pages) = 3
    /\ \A i \in 1..3 : Len(arg.store.pages[i]) >= 1
    /\ ret.files = AllKeys(arg.store)

\* C4: with a limit L >= 0 (0 included) and n keys available, the result is the
\* first min(L, n) keys of the aggregated list.
C4_LimitFirstMin ==
    (ret.done /\ ret.returned /\ ret.outcome = "break" /\ arg.limit # None)
        => ret.files = SubSeq(AllKeys(arg.store), 1,
                              Min(arg.limit[1], Len(AllKeys(arg.store))))

\* C5: a store error on any page request, the first or a later one, makes the
\* function return the empty sequence.
C5_ErrorGivesEmpty ==
    (ret.done /\ ret.returned /\ ret.outcome = "except") => ret.files = <<>>

\* C14: the call never passes an error on to its caller: when the loop ends,
\* by break or by a store failure on any page request, the call returns;
\* and it returns the empty sequence when the store holds no key under the
\* prefix.
C14_ListNeverRaises ==
    (ret.done /\ ret.outcome \in {"break", "except"})
        => /\ ret.returned
           /\ AllKeys(arg.store) = <<>> => ret.files = <<>>

\* a store failure on the second page request
C14_Witness ==
    /\ ret.done /\ ret.returned
    /\ ret.outcome = "except" /\ Len(ret.sent) = 2 /\ arg.store.failAt = 2

\* C22: against a store that serves the prefix as P pages and answers every
\* request, the call issues exactly P requests and returns: the first request
\* carries no cursor, request i + 1 carries the cursor returned with page i,
\* whatever cursors the store returns, the empty one included.
C22_ExactlyPRequests ==
    (ret.done /\ arg.store.failAt = 0)
        => LET P == Len(arg.store.pages)
           IN  /\ ret.returned
               /\ Len(ret.sent) = P
               /\ ret.sent[1] = NoToken
               /\ \A i \in 1..(P - 1) : ret.sent[i + 1] = arg.store.cursors[i]

(***************************************************************************)
(* Specification SpecCompare: one call of compare_files on any two lists   *)
(* within the bounds, repeated strings included.                           *)
(***************************************************************************)
SampleFiles == {<<"s3://b/", "a">>, <<"s3://b/", "b">>, <<"s3://b/", "c">>}

InitCompare ==
    /\ arg \in [redshift_committed_files : SeqsUpTo(SampleFiles, MaxListLen),
                s3_files : SeqsUpTo(SampleFiles, MaxListLen)]
    /\ ret = Pending
    /\ PipeIdle

CallCompare ==
    /\ ~ret.done
    /\ \E q \in compare_files(arg.redshift_committed_files, arg.s3_files) :
           ret' = [done |-> TRUE, value |-> q]
    /\ UNCHANGED <<arg, pipe>>

NextCompare == CallCompare

SpecCompare == InitCompare /\ [][NextCompare]_vars

\* C2: compare_files(C, S) returns a list whose elements are exactly those of S
\* that are not in C, none of them twice.
C2_CompareIsSetDifference ==
    ret.done =>
        /\ \A f \in SetOf(ret.value) :
               f \in SetOf(arg.s3_files) /\ f \notin SetOf(arg.redshift_committed_files)
        /\ \A f \in SetOf(arg.s3_files) :
               f \notin SetOf(arg.redshift_committed_files) => f \in SetOf(ret.value)
        /\ NoDup(ret.value)

C2_Witness ==
    /\ ret.done
    /\ ~NoDup(arg.s3_files)
    /\ ~NoDup(arg.redshift_committed_files)
    /\ Len(ret.value) = 1
    /\ SetOf(arg.s3_files) \cap SetOf(arg.redshift_committed_files) # {}

\* C13: for the store list S of the call and committed lists C1, C2 with every
\* element of C1 in C2 (C2 being the committed list of the call), the list
\* returned for C2 is no longer than a list returned for C1.
C13_CompareMonotone ==
    ret.done =>
        \A C1 \in SeqsUpTo(SampleFiles, MaxListLen) :
            SetOf(C1) \subseteq SetOf(arg.redshift_committed_files)
                => \A q1 \in compare_files(C1, arg.s3_files) : Len(ret.value) <= Len(q1)

\* two of the three files of the store are committed: one is returned, and
\* three are returned for the empty committed list
C13_Witness ==
    /\ ret.done
    /\ Cardinality(SetOf(arg.s3_files)) = 3
    /\ Cardinality(SetOf(arg.redshift_committed_files)) = 2
    /\ \A q1 \in compare_files(<<>>, arg.s3_files) : Len(q1) = 3 /\ Len(ret.value) = 1

(***************************************************************************)
(* Specification SpecCommitted: one call of redshift_get_committed_files   *)
(* on a load history and a prefix.                                         *)
(***************************************************************************)
SamplePrefixes == {<<"log", "-", "data">>, <<"log", "_", "data">>}

SampleNames ==
    {<<"x", "log", "-", "data", "-2020">>,
     <<"s3://b/", "log", "-", "data", "/a", Blank, Blank>>,
     <<Blank, "s3://b/", "log", "-", "data", "/a">>,
     <<"s3://b/", "log", "_", "data", "/a", Blank>>,
     <<"s3://b/", "song", "/a">>}

InitCommitted ==
    /\ arg \in [rows : {rows \in SUBSET [query : 1..2, filename : SampleNames] :
                             Cardinality(rows) <= MaxRows},
                prefix : SamplePrefixes]
    /\ ret = Pending
    /\ PipeIdle

CallCommitted ==
    /\ ~ret.done
    /\ \E q \in redshift_get_committed_files(arg.rows, arg.prefix) :
           ret' = [done |-> TRUE, value |-> q]
    /\ UNCHANGED <<arg, pipe>>

NextCommitted == CallCommitted

SpecCommitted == InitCommitted /\ [][NextCommitted]_vars

\* the text p occurs in s
Contains(s, p) ==
    \E i \in 0..(Len(s) - Len(p)) : SubSeq(s, i + 1, i + Len(p)) = p

\* C7: the call returns exactly the distinct history filenames that contain
\* the prefix text as a substring, each stripped of surrounding whitespace.
C7_CommittedAreSubstringMatches ==
    ret.done =>
        LET matching == {f \in {row.filename : row \in arg.rows} :
                            Contains(f, arg.prefix)}
        IN  /\ SetOf(ret.value) = {Strip(f) : f \in matching}
            /\ Len(ret.value) = Cardinality(matching)

(***************************************************************************)
(* Specification SpecConnection: one call of redshift_get_committed_files, *)
(* statement by statement.  ret.conns lists the warehouse connections      *)
(* there are (arg.others of them were opened by other sessions before the  *)
(* call), each with the state of the connection and of its cursor;         *)
(* ret.connects counts the calls of psycopg2.connect; ret.pc is the        *)
(* position in the function, "return" after a normal return and "raised"   *)
(* when an error has left it.                                              *)
(***************************************************************************)
OtherConn == [conn |-> "open", cursor |-> "open"]

InitConnection ==
    /\ arg \in [rows : {rows \in SUBSET [query : 1..2, filename : SampleNames] :
                             Cardinality(rows) <= MaxRows},
                prefix : SamplePrefixes,
                others : 0..1]
    /\ ret = [done |-> FALSE, pc |-> "connect", connects |-> 0,
              conns |-> [i \in 1..arg.others |-> OtherConn], value |-> <<>>,
              error |-> "none"]
    /\ PipeIdle

\* conn = psycopg2.connect(...)
PsycopgConnect ==
    /\ ret.pc = "connect"
    /\ ret' = [ret EXCEPT !.pc = "cursor", !.connects = @ + 1,
                          !.conns = Append(@, [conn |-> "open", cursor |-> "none"])]
    /\ UNCHANGED <<arg, pipe>>

\* psycopg2.connect raises: there is no connection, the error leaves the call
PsycopgConnectFails ==
    /\ ret.pc = "connect"
    /\ ret' = [ret EXCEPT !.pc = "raised", !.connects = @ + 1, !.done = TRUE,
                          !.error = "connect"]
    /\ UNCHANGED <<arg, pipe>>

\* cursor = conn.cursor()
ConnCursor ==
    /\ ret.pc = "cursor"
    /\ ret' = [ret EXCEPT !.pc = "execute", !.conns[Len(ret.conns)].cursor = "open"]
    /\ UNCHANGED <<arg, pipe>>

\* cursor.execute(query); committed_files = [row[0].strip() for row in ...]
CursorExecute ==
    /\ ret.pc = "execute"
    /\ \E q \in redshift_get_committed_files(arg.rows, arg.prefix) :
           ret' = [ret EXCEPT !.pc = "cursor_close", !.value = q]
    /\ UNCHANGED <<arg, pipe>>

\* (a variant with the close calls in a finally block)
CursorExecuteFailsCloses ==
    /\ ret.pc = "execute"
    /\ ret' = [ret EXCEPT !.pc = "raised", !.done = TRUE, !.error = "execute",
                          !.conns[Len(ret.conns)] = [conn |-> "closed", cursor |-> "closed"]]
    /\ UNCHANGED <<arg, pipe>>

\* cursor.execute raises: no handler, no finally; the error leaves the call
CursorExecuteFails ==
    /\ ret.pc = "execute"
    /\ ret' = [ret EXCEPT !.pc = "raised", !.done = TRUE, !.error = "execute"]
    /\ UNCHANGED <<arg, pipe>>

\* cursor.close()
CursorClose ==
    /\ ret.pc = "cursor_close"
    /\ ret' = [ret EXCEPT !.pc = "conn_close", !.conns[Len(ret.conns)].cursor = "closed"]
    /\ UNCHANGED <<arg, pipe>>

\* conn.close()
ConnClose ==
    /\ ret.pc = "conn_close"
    /\ ret' = [ret EXCEPT !.pc = "returning", !.conns[Len(ret.conns)].conn = "closed"]
    /\ UNCHANGED <<arg, pipe>>

\* return committed_files
ReturnCommitted ==
    /\ ret.pc = "returning"
    /\ ret' = [ret EXCEPT !.pc = "return", !.done = TRUE]
    /\ UNCHANGED <<arg, pipe>>

NextConnection ==
    \/ PsycopgConnect
    \/ PsycopgConnectFails
    \/ ConnCursor
    \/ CursorExecute
    \/ CursorExecuteFails
    \/ CursorClose
    \/ ConnClose
    \/ ReturnCommitted

SpecConnection == InitConnection /\ [][NextConnection]_vars

\* C20: a call of redshift_get_committed_files calls connect once and, unless
\* connect itself raises, has one new connection next to those of other
\* sessions, which it leaves as they were.  When the call has returned, its
\* connection and its cursor are closed; when the query has raised, the error
\* has left the call and its connection and cursor are still open.
C20_OneConnectionPerCall ==
    LET own == ret.conns[Len(ret.conns)]
        opened == IF ret.pc = "connect" \/ ret.error = "connect" THEN 0 ELSE 1
    IN  /\ ret.connects = IF ret.pc = "connect" THEN 0 ELSE 1
        /\ Len(ret.conns) = arg.others + opened
        /\ \A i \in 1..arg.others : ret.conns[i] = OtherConn
        /\ ret.pc = "return"
               => /\ ret.done /\ ret.error = "none"
                  /\ own = [conn |-> "closed", cursor |-> "closed"]
        /\ ret.error = "execute"
               => /\ ret.done /\ ret.pc = "raised"
                  /\ own = [conn |-> "open", cursor |-> "open"]

\* the query of a call made next to another session's connection has raised
C20_Witness ==
    /\ ret.error = "execute"
    /\ arg.others = 1
    /\ ret.conns = <<OtherConn, [conn |-> "open", cursor |-> "open"]>>

(***************************************************************************)
(* Specification SpecManifest: one call of s3_create_manifest.             *)
(***************************************************************************)
SampleUrls ==
    {<<"s3://b/a.json">>, <<"s3://b/c.json">>, <<"s3://b/", DQ, "x">>, <<BS, "n">>, <<>>}

SampleKeys == {"log.manifest", "song.manifest"}

SampleBuckets == {<<>>, [k \in {"log.manifest"} |-> <<"old">>]}

InitManifest ==
    /\ arg \in [bucket : SampleBuckets, manifest_key : SampleKeys,
                file_list : SeqsUpTo(SampleUrls, MaxFiles)]
    /\ ret = Pending
    /\ PipeIdle

CallManifest ==
    /\ ~ret.done
    /\ ret' = [done |-> TRUE,
               bucket |-> s3_create_manifest(arg.bucket, arg.manifest_key, arg.file_list)]
    /\ UNCHANGED <<arg, pipe>>

NextManifest == CallManifest

SpecManifest == InitManifest /\ [][NextManifest]_vars

\* C6: the written document deserializes to an object with the single field
\* entries, holding one entry per input element in input order, entry i with
\* url equal to input element i and mandatory equal to true.
C6_ManifestRoundTrip ==
    ret.done =>
        LET doc == json_loads(ret.bucket[arg.manifest_key])
            members == doc.val.v
            entries == members[1].val.v
        IN  /\ doc.ok
            /\ doc.val.t = "obj"
            /\ Len(members) = 1
            /\ members[1].k = <<"entries">>
            /\ members[1].val.t = "arr"
            /\ Len(entries) = Len(arg.file_list)
            /\ \A i \in DOMAIN arg.file_list :
                   /\ entries[i].t = "obj"
                   /\ Len(entries[i].v) = 2
                   /\ entries[i].v[1] = Member(<<"url">>, JStr(arg.file_list[i]))
                   /\ entries[i].v[2] = Member(<<"mandatory">>, JTrue)

C6_Witness ==
    /\ ret.done
    /\ Len(arg.file_list) = 2
    /\ arg.file_list[1] # arg.file_list[2]
    /\ \E i \in 1..2 : DQ \in SetOf(arg.file_list[i])
    /\ json_loads(ret.bucket[arg.manifest_key]).ok

(***************************************************************************)
(* sql_queries: the star inserts, column by column                         *)
(*                                                                         *)
(* A row is a record of the columns the statements select or join on; a    *)
(* column without a value holds NULL, and so does every column of the      *)
(* right side of a LEFT JOIN that found no match.  The key an IDENTITY     *)
(* column gives a dimension row is held as the row itself: two rows have   *)
(* two keys.  A SELECT DISTINCT gives a set of rows.                       *)
(***************************************************************************)
NULL == "NULL"

NullUser == [user_id |-> NULL, user_level |-> NULL]

NullArtist == [artist_id |-> NULL, artist_name |-> NULL, artist_location |-> NULL]

NullSong == [artist_key |-> NullArtist, artist_id |-> NULL, song_title |-> NULL]

\* SQL equality: a NULL is equal to nothing
SqlEq(a, b) == a # NULL /\ b # NULL /\ a = b

\* left LEFT JOIN right ON ...: the pairs of rows the ON condition matches,
\* and each left row without a match next to the all-NULL right row
LeftJoin(left, matches, nullRow) ==
    matches \cup {<<l, nullRow>> : l \in {x \in left : \A p \in matches : p[1] # x}}

\* SELECT DISTINCT sl.userId, ..., sl.level FROM staging_song_log AS sl
\* WHERE sl.artist IS NOT NULL
UserSelect(staging_song_log) ==
    {[user_id |-> sl.userId, user_level |-> sl.level] :
        sl \in {x \in staging_song_log : x.artist # NULL}}

\* SELECT DISTINCT sd.artist_id, sd.artist_name, sd.artist_location, ...
\* FROM staging_song_data AS sd WHERE sd.artist_name IS NOT NULL
ArtistSelect(staging_song_data) ==
    {[artist_id |-> sd.artist_id, artist_name |-> sd.artist_name,
      artist_location |-> sd.artist_location] :
        sd \in {x \in staging_song_data : x.artist_name # NULL}}

\* SELECT DISTINCT da.artist_key, sd.artist_id, sd.title, ...
\* FROM staging_song_data AS sd LEFT JOIN dim_artist AS da ON ...
\* WHERE sd.artist_id IS NOT NULL
SongSelect(staging_song_data, dim_artist) ==
    {[artist_key |-> p[2], artist_id |-> p[1].artist_id, song_title |-> p[1].title] :
        p \in {q \in LeftJoin(staging_song_data,
                              {m \in staging_song_data \X dim_artist :
                                  /\ SqlEq(m[2].artist_id, m[1].artist_id)
                                  /\ SqlEq(m[2].artist_name, m[1].artist_name)
                                  /\ SqlEq(m[2].artist_location, m[1].artist_location)},
                              NullArtist) :
                  q[1].artist_id # NULL}}

\* the rows of FROM staging_song_log sl LEFT JOIN dim_user AS u LEFT JOIN
\* dim_artist AS a LEFT JOIN dim_song AS s WHERE ...: <<sl, u, a, s>>
SongplayJoin(staging_song_log, dim_user, dim_artist, dim_song) ==
    LET slu == LeftJoin(staging_song_log,
                        {m \in staging_song_log \X dim_user :
                            SqlEq(m[1].userId, m[2].user_id)},
                        NullUser)
        slua == LeftJoin(slu,
                         {m \in slu \X dim_artist :
                             SqlEq(m[1][1].artist, m[2].artist_name)},
                         NullArtist)
        sluas == LeftJoin(slua,
                          {m \in slua \X dim_song :
                              /\ SqlEq(m[1][1][1].song, m[2].song_title)
                              /\ SqlEq(m[1][2].artist_id, m[2].artist_id)},
                          NullSong)
    IN  {<<p[1][1][1], p[1][1][2], p[1][2], p[2]>> :
            p \in {q \in sluas : /\ q[1][1][1].artist # NULL
                                 /\ q[1][1][1].userId # NULL
                                 /\ q[1][2].artist_id # NULL}}

\* the row SELECT DISTINCT makes of a joined row: the columns of the event
\* (song_log_id is not among them) and the three keys
SongplayRow(j) ==
    [ts |-> j[1].ts, user_key |-> j[2], artist_key |-> j[3], song_key |-> j[4],
     session_id |-> j[1].sessionId]

SongplaySelect(staging_song_log, dim_user, dim_artist, dim_song) ==
    {SongplayRow(j) : j \in SongplayJoin(staging_song_log, dim_user, dim_artist, dim_song)}

\* insert_tables on truncated star tables: the four inserts in their order
StarInserts(staging_song_log, staging_song_data) ==
    LET dim_user == UserSelect(staging_song_log)
        dim_artist == ArtistSelect(staging_song_data)
        dim_song == SongSelect(staging_song_data, dim_artist)
    IN  [dim_user |-> dim_user, dim_artist |-> dim_artist, dim_song |-> dim_song,
         fact_songplay |-> SongplaySelect(staging_song_log, dim_user, dim_artist,
                                          dim_song)]

(***************************************************************************)
(* Specification SpecStar: the star inserts of a run over any contents of  *)
(* the two staging tables within the bounds: events of one user and of     *)
(* no user, at one level or the other, naming an artist or none; song      *)
(* records of two artist ids with one name.                                *)
(***************************************************************************)
MaxStagingRows == 2     \* rows of a staging table

SampleEvents ==
    [song_log_id : 1..MaxStagingRows, userId : {"u1"}, level : {"free", "paid"},
     artist : {"A", NULL}, song : {"S"}, ts : {1}, sessionId : {1}]

SampleSongData ==
    [artist_id : {"a1", "a2"}, artist_name : {"A"}, artist_location : {"X"},
     title : {"S", "T"}]

InitStar ==
    /\ arg \in [staging_song_log :
                    {rows \in SUBSET SampleEvents :
                        \A x, y \in rows : x.song_log_id = y.song_log_id => x = y},
                staging_song_data :
                    {rows \in SUBSET SampleSongData : Cardinality(rows) <= MaxStagingRows}]
    /\ ret = Pending
    /\ PipeIdle

CallInsertTables ==
    /\ ~ret.done
    /\ ret' = [done |-> TRUE,
               star |-> StarInserts(arg.staging_song_log, arg.staging_song_data)]
    /\ UNCHANGED <<arg, pipe>>

NextStar == CallInsertTables

SpecStar == InitStar /\ [][NextStar]_vars

\* C25: after the star inserts every row of the event staging table has given
\* at most one row of the fact table, whatever the staging tables hold.
C25_OneFactRowPerEvent ==
    ret.done =>
        \A sl \in arg.staging_song_log :
            Cardinality({f \in ret.star.fact_songplay :
                            \E u \in ret.star.dim_user \cup {NullUser} :
                            \E a \in ret.star.dim_artist :
                            \E s \in ret.star.dim_song \cup {NullSong} :
                                /\ f = [ts |-> sl.ts, session_id |-> sl.sessionId,
                                        user_key |-> u, artist_key |-> a,
                                        song_key |-> s]
                                /\ u.user_id \in {sl.userId, NULL}
                                /\ a.artist_name = sl.artist}) <= 1

====
